---- MODULE Spec2Model ----
(***************************************************************************)
(* Model of src/main.py: the static site generator main().                 *)
(*                                                                         *)
(* File names are sequences of one-character strings, so that glob's       *)
(* pattern match, pathlib's stem and the f-string that builds an output    *)
(* path are computed, not assumed.  File contents are sequences of string  *)
(* tokens (bytes are not modelled one by one).  A markdown source is a     *)
(* sequence of lines; each line is a record that says which of the meta    *)
(* extension's regular expressions it matches.                             *)
(***************************************************************************)
EXTENDS Integers, Sequences, FiniteSets, TLC

\* ------------------------------------------------------------------ bounds
\* Largest number of entries in src/markdowns.
MaxDocs == 2
\* Largest number of entries in src/static.
MaxStatic == 1
\* The calendar year of the wall clock when the first run starts.
StartYear == 2024

\* ------------------------------------------------------------- file names
DotMd == <<".", "m", "d">>
DotHtml == <<".", "h", "t", "m", "l">>
IndexName == <<"i", "n", "d", "e", "x">>
IndexHtml == IndexName \o DotHtml

Range(s) == {s[k] : k \in 1..Len(s)}

\* True when the sequence s ends with the sequence suffix.
EndsWith(s, suffix) ==
    /\ Len(s) >= Len(suffix)
    /\ SubSeq(s, Len(s) - Len(suffix) + 1, Len(s)) = suffix

\* glob never lets a wildcard match a leading dot.
IsHidden(name) == Len(name) > 0 /\ name[1] = "."

\* fnmatch on one directory entry, for the two patterns main() uses.
Matches(name, pattern) ==
    CASE pattern = "*.md" -> ~IsHidden(name) /\ EndsWith(name, DotMd)
      [] pattern = "*" -> ~IsHidden(name)

\* glob.glob: the names of a directory listing that match, in listing order.
Glob(listing, pattern) ==
    LET hits == SelectSeq(listing, LAMBDA e : Matches(e.name, pattern))
    IN [k \in 1..Len(hits) |-> hits[k].name]

\* str.rfind("."): the 1-based position of the last dot, 0 when there is none.
LastDot(name) ==
    LET dots == {k \in 1..Len(name) : name[k] = "."}
    IN IF dots = {} THEN 0 ELSE CHOOSE k \in dots : \A m \in dots : m <= k

\* Mutant of Stem: the name is used as it is (.name for .stem).
Stem_KeepSuffix(name) == name

\* pathlib.Path(p).stem: the final component without its last suffix; a
\* leading dot or a trailing dot starts no suffix.
Stem(name) ==
    LET p == LastDot(name)
    IN IF p > 1 /\ p < Len(name) THEN SubSeq(name, 1, p - 1) ELSE name

\* Mutant of DocPath: the ".html" is left out of the f-string.
DocPath_NoSuffix(markdown_file_name) == markdown_file_name

\* f"build/{markdown_file_name}.html", relative to build/.
DocPath(markdown_file_name) == markdown_file_name \o DotHtml

\* f"build/{static_file_name}", relative to build/.
StaticPath(static_file_name) == static_file_name

\* The entry of a directory listing with the given name.
EntryOf(listing, name) == CHOOSE e \in Range(listing) : e.name = name

\* ------------------------------------------------------- markdown sources
None == <<>>
Some(v) == <<v>>

MetaLine(k, v) == [kind |-> "meta", key |-> k, value |-> v]
MoreLine(v) == [kind |-> "more", key |-> "", value |-> v]
BlankLine == [kind |-> "blank", key |-> "", value |-> ""]
TextLine(v) == [kind |-> "text", key |-> "", value |-> v]

\* The sources a document may hold.
EmptySource == <<>>
TextSource == <<TextLine("Hello")>>
FullSource ==
    <<MetaLine("title", "A"), MetaLine("date", "2024-01-15"), BlankLine, TextLine("Post")>>
BadDateSource == <<MetaLine("date", "not-a-date"), BlankLine, TextLine("Bad")>>
YearlessSource ==
    <<MetaLine("title", "B"), MetaLine("date", "Jan 15"), MoreLine("not-a-date"),
      BlankLine, TextLine("Rel")>>
Sources == {EmptySource, TextSource, FullSource, BadDateSource, YearlessSource}

\* source.strip() == "": nothing but white space.
IsBlankSource(source) == \A k \in 1..Len(source) : source[k].kind = "blank"

\* meta[key].append(value), creating the list on the first value.
MetaAdd(meta, key, value) ==
    IF key \in DOMAIN meta
    THEN [meta EXCEPT ![key] = Append(@, value)]
    ELSE (key :> <<value>>) @@ meta

\* MetaPreprocessor.run: consumes the leading "key: value" lines and their
\* indented continuation lines up to the first blank line (consumed) or the
\* first other line (kept).  Yields the metadata and the remaining lines.
RECURSIVE MetaRun(_, _, _)
MetaRun(lines, meta, key) ==
    IF lines = <<>> THEN [meta |-> meta, lines |-> <<>>]
    ELSE LET line == Head(lines)
         IN IF line.kind = "blank" THEN [meta |-> meta, lines |-> Tail(lines)]
            ELSE IF line.kind = "meta"
            THEN MetaRun(Tail(lines), MetaAdd(meta, line.key, line.value), line.key)
            ELSE IF line.kind = "more" /\ key # ""
            THEN MetaRun(Tail(lines), MetaAdd(meta, key, line.value), key)
            ELSE [meta |-> meta, lines |-> lines]

\* The block parser and serializer on the lines left after the metadata: one
\* paragraph per text line, a code block per indented line, nothing for a
\* blank line.  (No source of the model has two text lines in a row.)
RECURSIVE ToHtml(_)
ToHtml(lines) ==
    IF lines = <<>> THEN <<>>
    ELSE LET line == Head(lines)
             block == CASE line.kind = "blank" -> <<>>
                        [] line.kind = "text" -> <<"<p>", line.value, "</p>">>
                        [] line.kind = "more" -> <<"<pre>", line.value, "</pre>">>
                        [] line.kind = "meta" -> <<"<p>", line.key, ":", line.value, "</p>">>
         IN block \o ToHtml(Tail(lines))

\* md.convert(source) on a converter whose Meta attribute holds oldMeta: the
\* html it returns and the Meta it leaves behind.  A blank source returns ""
\* before any preprocessor runs, so Meta keeps what the last conversion set.
Convert(source, oldMeta) ==
    IF IsBlankSource(source)
    THEN [html |-> <<>>, meta |-> oldMeta]
    ELSE LET r == MetaRun(source, <<>>, "")
         IN [html |-> ToHtml(r.lines), meta |-> r.meta]

\* Mutant of MetaGet: every lookup reads the "title" key.
MetaGet_WrongKey(meta, key) ==
    IF "title" \in DOMAIN meta THEN Some(meta["title"][1]) ELSE None

\* md.Meta.get(key, [None])[0]
MetaGet(meta, key) == IF key \in DOMAIN meta THEN Some(meta[key][1]) ELSE None

\* dateutil.parser.parse(s) raises ParserError for a string that is no date.
DateParses(s) == s \in {"2024-01-15", "Jan 15"}

\* dateutil.parser.parse(s) for a string it accepts: the fields the string
\* leaves out are taken from the day the call is made.
DateParse(s, year) ==
    CASE s = "2024-01-15" -> [year |-> 2024, month |-> 1, day |-> 15]
      [] s = "Jan 15" -> [year |-> year, month |-> 1, day |-> 15]

\* `if markdown_file_date`: None and "" are both false.
Truthy(opt) == opt # None /\ opt[1] # ""

\* dateutil.parser.parse(markdown_file_date) if markdown_file_date else None
PostDate(markdown_file_date, year) ==
    IF Truthy(markdown_file_date) THEN Some(DateParse(markdown_file_date[1], year)) ELSE None

\* The conditional expression above raises.
PostDateRaises(markdown_file_date) ==
    Truthy(markdown_file_date) /\ ~DateParses(markdown_file_date[1])

MarkdownFilePost(title, date, html) == [title |-> title, date |-> date, html |-> html]

\* -------------------------------------------------------- index template
\* Markup(...).__html__ as autoescape applies it to one token of a value.
EscapeToken(t) ==
    CASE t = "<p>" -> "&lt;p&gt;"
      [] t = "</p>" -> "&lt;/p&gt;"
      [] t = "<pre>" -> "&lt;pre&gt;"
      [] t = "</pre>" -> "&lt;/pre&gt;"
      [] OTHER -> t

Escape(html) == [k \in 1..Len(html) |-> EscapeToken(html[k])]

\* {{ post.title }}: None prints as the word None.
RenderTitle(title) == IF title = None THEN <<"None">> ELSE <<title[1]>>

\* {{ post.date }}: str() of the datetime, or the word None.
RenderDate(date) ==
    IF date = None THEN <<"None">>
    ELSE <<ToString(date[1].year), "-", ToString(date[1].month), "-", ToString(date[1].day)>>

RenderPost(post) ==
    <<"<li>">> \o RenderTitle(post.title) \o RenderDate(post.date)
        \o Escape(post.html) \o <<"</li>">>

RECURSIVE RenderPosts(_)
RenderPosts(post_list) ==
    IF post_list = <<>> THEN <<>>
    ELSE RenderPost(Head(post_list)) \o RenderPosts(Tail(post_list))

\* index_template.render(post_list=...), for a template that lists the
\* title, the date and the html of every post, in order.
Render(post_list) == <<"<ul>">> \o RenderPosts(post_list) \o <<"</ul>">>

\* ------------------------------------------------------------- the inputs
FileEntry(name, content) == [name |-> name, kind |-> "file", content |-> content]
DirEntry(name) == [name |-> name, kind |-> "dir", content |-> <<>>]

AMd == <<"a">> \o DotMd
BMd == <<"b">> \o DotMd
IndexMd == IndexName \o DotMd
NotesTxt == <<"n", ".", "t", "x", "t">>
AHtml == <<"a">> \o DotHtml
LogoPng == <<"l", "o", "g", "o", ".", "p", "n", "g">>
NoJekyll == <<".", "n", "o", "j", "e", "k", "y", "l", "l">>
Css == <<"c", "s", "s">>

\* What src/markdowns may hold: documents, directories and another file.
MdEntries ==
    {FileEntry(n, c) : n \in {AMd, BMd, IndexMd}, c \in Sources}
        \cup {DirEntry(n) : n \in {AMd, BMd, IndexMd}}
        \cup {FileEntry(NotesTxt, TextSource)}

\* What src/static may hold.
StaticEntries ==
    {FileEntry(IndexHtml, <<"s1">>), FileEntry(AHtml, <<"s2">>),
     FileEntry(LogoPng, <<"s2">>), FileEntry(NoJekyll, <<"s1">>), DirEntry(Css)}

\* The listings of a directory: at most max entries, no name twice, in the
\* order the file system happens to return them.
Listings(entries, max) ==
    {l \in UNION {[1..n -> entries] : n \in 0..max} :
        \A a, b \in 1..Len(l) : a # b => l[a].name # l[b].name}

\* build/ as a run may find it: files of an earlier build.
OldBuild == (IndexHtml :> <<"old">>) @@ (LogoPng :> <<"old">>)
NoFiles == <<>>

\* --------------------------------------------------------------- the state
VARIABLES
    mdDir,                    \* src/markdowns, as listed
    staticDir,                \* src/static, as listed
    templatePresent,          \* src/templates/index.html exists
    buildOk,                  \* build/ exists and can be written
    today,                    \* the year of the wall clock
    build,                    \* build/: file name -> content
    pc,                       \* where main() is
    failure,                  \* the exception that ended the run
    md_Meta,                  \* md.Meta
    markdown_file_path_list,
    markdown_file_name_list,
    markdown_file_post_list,
    i,                        \* iterations of the document loop completed
    static_file_list,
    j,                        \* iterations of the static loop completed
    warned,                   \* log.warning was called
    written,                  \* the files this run wrote, in order
    run,                      \* "first" or "second" run of main()
    firstBuild                \* build/ as the first run left it

inputs == <<mdDir, staticDir, templatePresent, buildOk>>
locals == <<md_Meta, markdown_file_path_list, markdown_file_name_list,
            markdown_file_post_list, i, static_file_list, j, warned>>
vars == <<inputs, today, build, pc, failure, locals, written, run, firstBuild>>

\* The state when main() is called, src/markdowns holding some of mdEntries.
InitWith(mdEntries) ==
    /\ mdDir \in Listings(mdEntries, MaxDocs)
    /\ staticDir \in Listings(StaticEntries, MaxStatic)
    /\ templatePresent \in BOOLEAN
    /\ buildOk \in BOOLEAN
    /\ today = StartYear
    /\ build = IF buildOk THEN OldBuild ELSE NoFiles
    /\ pc = "start"
    /\ failure = "none"
    /\ md_Meta = <<>>
    /\ markdown_file_path_list = <<>>
    /\ markdown_file_name_list = <<>>
    /\ markdown_file_post_list = <<>>
    /\ i = 0
    /\ static_file_list = <<>>
    /\ j = 0
    /\ warned = FALSE
    /\ written = <<>>
    /\ run = "first"
    /\ firstBuild = build

Init == InitWith(MdEntries)

\* Mutant of WriteFile: a file that is there already is left as it is.
WriteFile_NoReplace(files, path, content) ==
    IF path \in DOMAIN files THEN files ELSE (path :> content) @@ files

\* open(path, "w").write(content): the file is created or replaced.
WriteFile(files, path, content) == (path :> content) @@ files

Written(path, content, step) == [path |-> path, content |-> content, step |-> step]

\* An uncaught exception ends main().
Abort(why) == pc' = "aborted" /\ failure' = why

\* Mutant of NoFilesFound: the test is inverted.
NoFilesFound_Inverted(path_list) == Len(path_list) # 0

\* len(markdown_file_path_list) == 0
NoFilesFound(path_list) == Len(path_list) = 0

\* Lines 18-29: the converter, the two lists, the warning, the empty post list.
Start ==
    /\ pc = "start"
    /\ md_Meta' = <<>>
    /\ markdown_file_path_list' = Glob(mdDir, "*.md")
    /\ markdown_file_name_list' =
           [k \in 1..Len(Glob(mdDir, "*.md")) |-> Stem(Glob(mdDir, "*.md")[k])]
    /\ warned' = NoFilesFound(Glob(mdDir, "*.md"))
    /\ markdown_file_post_list' = <<>>
    /\ i' = 0
    /\ pc' = "docs"
    /\ UNCHANGED <<inputs, today, build, failure, static_file_list, j, written,
                   run, firstBuild>>

\* Mutant of ProcessDocument: the html file is written before the date is
\* parsed.
ProcessDocument_WriteFirst ==
    /\ pc = "docs"
    /\ i < Len(markdown_file_path_list)
    /\ LET markdown_file_path == markdown_file_path_list[i + 1]
           markdown_file_name == markdown_file_name_list[i + 1]
           entry == EntryOf(mdDir, markdown_file_path)
           converted == Convert(entry.content, md_Meta)
           markdown_file_html == converted.html
           markdown_file_title == MetaGet(converted.meta, "title")
           markdown_file_date == MetaGet(converted.meta, "date")
           markdown_file_post ==
               MarkdownFilePost(markdown_file_title,
                                PostDate(markdown_file_date, today),
                                markdown_file_html)
       IN IF entry.kind = "dir"
          THEN /\ Abort("read")
               /\ UNCHANGED <<md_Meta, markdown_file_post_list, build, written, i>>
          ELSE IF PostDateRaises(markdown_file_date)
          THEN /\ Abort("date")
               /\ md_Meta' = converted.meta
               /\ build' = IF buildOk
                           THEN WriteFile(build, DocPath(markdown_file_name), markdown_file_html)
                           ELSE build
               /\ written' = IF buildOk
                             THEN Append(written,
                                      Written(DocPath(markdown_file_name), markdown_file_html, "doc"))
                             ELSE written
               /\ UNCHANGED <<markdown_file_post_list, i>>
          ELSE IF ~buildOk
          THEN /\ Abort("write")
               /\ md_Meta' = converted.meta
               /\ markdown_file_post_list' =
                      Append(markdown_file_post_list, markdown_file_post)
               /\ UNCHANGED <<build, written, i>>
          ELSE /\ md_Meta' = converted.meta
               /\ markdown_file_post_list' =
                      Append(markdown_file_post_list, markdown_file_post)
               /\ build' = WriteFile(build, DocPath(markdown_file_name), markdown_file_html)
               /\ written' = Append(written,
                      Written(DocPath(markdown_file_name), markdown_file_html, "doc"))
               /\ i' = i + 1
               /\ UNCHANGED <<pc, failure>>
    /\ UNCHANGED <<inputs, today, markdown_file_path_list, markdown_file_name_list,
                   static_file_list, j, warned, run, firstBuild>>

\* Lines 30-43: one iteration of the document loop.
ProcessDocument ==
    /\ pc = "docs"
    /\ i < Len(markdown_file_path_list)
    /\ LET markdown_file_path == markdown_file_path_list[i + 1]
           markdown_file_name == markdown_file_name_list[i + 1]
           entry == EntryOf(mdDir, markdown_file_path)
           converted == Convert(entry.content, md_Meta)
           markdown_file_html == converted.html
           markdown_file_title == MetaGet(converted.meta, "title")
           markdown_file_date == MetaGet(converted.meta, "date")
           markdown_file_post ==
               MarkdownFilePost(markdown_file_title,
                                PostDate(markdown_file_date, today),
                                markdown_file_html)
       IN IF entry.kind = "dir"
          THEN /\ Abort("read")
               /\ UNCHANGED <<md_Meta, markdown_file_post_list, build, written, i>>
          ELSE IF PostDateRaises(markdown_file_date)
          THEN /\ Abort("date")
               /\ md_Meta' = converted.meta
               /\ UNCHANGED <<markdown_file_post_list, build, written, i>>
          ELSE IF ~buildOk
          THEN /\ Abort("write")
               /\ md_Meta' = converted.meta
               /\ markdown_file_post_list' =
                      Append(markdown_file_post_list, markdown_file_post)
               /\ UNCHANGED <<build, written, i>>
          ELSE /\ md_Meta' = converted.meta
               /\ markdown_file_post_list' =
                      Append(markdown_file_post_list, markdown_file_post)
               /\ build' = WriteFile(build, DocPath(markdown_file_name), markdown_file_html)
               /\ written' = Append(written,
                      Written(DocPath(markdown_file_name), markdown_file_html, "doc"))
               /\ i' = i + 1
               /\ UNCHANGED <<pc, failure>>
    /\ UNCHANGED <<inputs, today, markdown_file_path_list, markdown_file_name_list,
                   static_file_list, j, warned, run, firstBuild>>

\* Lines 45-58: the template, the index file, the list of static files.
RenderIndex ==
    /\ pc = "docs"
    /\ i = Len(markdown_file_path_list)
    /\ IF ~templatePresent
       THEN /\ Abort("template")
            /\ UNCHANGED <<build, written, static_file_list, j>>
       ELSE IF ~buildOk
       THEN /\ Abort("write")
            /\ UNCHANGED <<build, written, static_file_list, j>>
       ELSE /\ build' = WriteFile(build, IndexHtml, Render(markdown_file_post_list))
            /\ written' = Append(written,
                   Written(IndexHtml, Render(markdown_file_post_list), "index"))
            /\ static_file_list' = Glob(staticDir, "*")
            /\ j' = 0
            /\ pc' = "static"
            /\ UNCHANGED failure
    /\ UNCHANGED <<inputs, today, md_Meta, markdown_file_path_list,
                   markdown_file_name_list, markdown_file_post_list, i, warned,
                   run, firstBuild>>

\* Lines 59-61: one iteration of the static loop.
CopyStaticFile ==
    /\ pc = "static"
    /\ j < Len(static_file_list)
    /\ LET static_file == static_file_list[j + 1]
           static_file_name == static_file
           entry == EntryOf(staticDir, static_file)
       IN IF entry.kind = "dir"
          THEN /\ Abort("copy")
               /\ UNCHANGED <<build, written, j>>
          ELSE /\ build' = WriteFile(build, StaticPath(static_file_name), entry.content)
               /\ written' = Append(written,
                      Written(StaticPath(static_file_name), entry.content, "static"))
               /\ j' = j + 1
               /\ UNCHANGED <<pc, failure>>
    /\ UNCHANGED <<inputs, today, md_Meta, markdown_file_path_list,
                   markdown_file_name_list, markdown_file_post_list, i,
                   static_file_list, warned, run, firstBuild>>

\* Line 63: main() returns.
Finish ==
    /\ pc = "static"
    /\ j = Len(static_file_list)
    /\ pc' = "done"
    /\ UNCHANGED <<inputs, today, build, failure, locals, written, run, firstBuild>>

\* main() is called again over the same inputs; the clock may have moved on.
Rerun ==
    /\ pc \in {"done", "aborted"}
    /\ run = "first"
    /\ run' = "second"
    /\ firstBuild' = build
    /\ today' \in {today, today + 1}
    /\ pc' = "start"
    /\ failure' = "none"
    /\ written' = <<>>
    /\ md_Meta' = <<>>
    /\ markdown_file_path_list' = <<>>
    /\ markdown_file_name_list' = <<>>
    /\ markdown_file_post_list' = <<>>
    /\ i' = 0
    /\ static_file_list' = <<>>
    /\ j' = 0
    /\ warned' = FALSE
    /\ UNCHANGED <<inputs, build>>

Next == Start \/ ProcessDocument \/ RenderIndex \/ CopyStaticFile \/ Finish

\* One run of main().
Spec == Init /\ [][Next]_vars

\* The entries of src/markdowns in the runs checked for completion: a
\* document that converts, one whose date does not parse, a directory and a
\* file that is no document.
LiveMdEntries ==
    {FileEntry(AMd, FullSource), FileEntry(IndexMd, BadDateSource), DirEntry(BMd),
     FileEntry(NotesTxt, TextSource)}

FairInit == InitWith(LiveMdEntries)

\* One run of main(): a running process takes its next step.
FairSpec == FairInit /\ [][Next]_vars /\ WF_vars(Next)

NextTwice == Next \/ Rerun

\* Two runs of main() in succession.
SpecTwice == Init /\ [][NextTwice]_vars

\* ------------------------------------------------------------ the claims
\* The claims speak of the inputs directly: which entries of src/markdowns
\* are source documents, and the output name of each, are tabulated here and
\* not taken from Glob, Stem and DocPath.
DocumentNames == {AMd, BMd, IndexMd}

HtmlNameOf(name) ==
    CASE name = AMd -> AHtml
      [] name = BMd -> <<"b">> \o DotHtml
      [] name = IndexMd -> IndexHtml

\* The source documents, in enumeration order.
SourceDocs == SelectSeq(mdDir, LAMBDA e : e.name \in DocumentNames)
N == Len(SourceDocs)

\* The converted body of a source.
BodyOf(source) == Convert(source, <<>>).html

\* The metadata a source declares.
DeclaredMeta(source) ==
    IF IsBlankSource(source) THEN <<>> ELSE MetaRun(source, <<>>, "").meta

\* The source has no metadata block.
NoMetadataBlock(source) == DOMAIN DeclaredMeta(source) = {}

\* The source declares a non-empty date (the first value, the one main()
\* reads) that cannot be parsed.
DeclaresBadDate(source) ==
    /\ "date" \in DOMAIN DeclaredMeta(source)
    /\ DeclaredMeta(source)["date"][1] # ""
    /\ ~DateParses(DeclaredMeta(source)["date"][1])

\* The post derived from a source alone.
DerivedPost(source) ==
    MarkdownFilePost(MetaGet(DeclaredMeta(source), "title"),
                     PostDate(MetaGet(DeclaredMeta(source), "date"), today),
                     BodyOf(source))

WrittenPaths == {written[n].path : n \in 1..Len(written)}
StaticNames == {staticDir[n].name : n \in 1..Len(staticDir)}

\* C1 as stated: a completed run with N documents, any short names, and no
\* static assets writes N+1 distinct paths.
C1_Original ==
    (pc = "done" /\ staticDir = <<>>) => Cardinality(WrittenPaths) = N + 1

\* C1, amended: a completed run with N documents, none of them with the short
\* name index, and no static assets writes exactly the N paths
\* <short_name>.html and index.html, N+1 distinct paths.
C1_Amended ==
    (pc = "done" /\ staticDir = <<>>
        /\ \A k \in 1..N : SourceDocs[k].name # IndexMd)
    => /\ Cardinality(WrittenPaths) = N + 1
       /\ WrittenPaths = {HtmlNameOf(SourceDocs[k].name) : k \in 1..N} \cup {IndexHtml}

\* C1: a completed run over two documents, neither named index.
C1_Witness ==
    /\ pc = "done" /\ staticDir = <<>> /\ N = 2
    /\ \A k \in 1..N : SourceDocs[k].name # IndexMd
    /\ Cardinality(WrittenPaths) = 3

\* C2 as stated: the entry appended for a document with no metadata block
\* (an empty document included) has no title and no date, whatever was
\* converted before it.
C2_Original ==
    \A k \in 1..Len(markdown_file_post_list) :
        NoMetadataBlock(SourceDocs[k].content)
        => /\ markdown_file_post_list[k].title = None
           /\ markdown_file_post_list[k].date = None

\* C3 as stated: after a completed run every document's output file holds
\* the document's converted body.
C3_Original ==
    pc = "done"
    => \A k \in 1..N :
          /\ HtmlNameOf(SourceDocs[k].name) \in DOMAIN build
          /\ build[HtmlNameOf(SourceDocs[k].name)] = BodyOf(SourceDocs[k].content)

\* C3, amended: after a completed run the output file of every document whose
\* short name is not index, and whose output name is the name of no static
\* asset, holds the document's converted body.
C3_Amended ==
    pc = "done"
    => \A k \in 1..N :
          (SourceDocs[k].name # IndexMd /\ HtmlNameOf(SourceDocs[k].name) \notin StaticNames)
          => /\ HtmlNameOf(SourceDocs[k].name) \in DOMAIN build
             /\ build[HtmlNameOf(SourceDocs[k].name)] = BodyOf(SourceDocs[k].content)

\* C3: a completed run with a static asset and the document a.md on disk.
C3_Witness ==
    /\ pc = "done" /\ N = 2 /\ staticDir # <<>>
    /\ \E k \in 1..N : SourceDocs[k].name = AMd /\ SourceDocs[k].content = FullSource
    /\ AHtml \notin StaticNames
    /\ build[AHtml] = BodyOf(FullSource)

\* C4 as stated: after a completed run index.html holds the rendering of the
\* post list.
C4_Original ==
    pc = "done"
    => IndexHtml \in DOMAIN build /\ build[IndexHtml] = Render(markdown_file_post_list)

\* C4, amended: after a completed run in which no static asset is named
\* index.html, index.html holds the rendering of the post list.
C4_Amended ==
    (pc = "done" /\ IndexHtml \notin StaticNames)
    => IndexHtml \in DOMAIN build /\ build[IndexHtml] = Render(markdown_file_post_list)

\* C4: a completed run whose index replaced the output of index.md.
C4_Witness ==
    /\ pc = "done" /\ IndexHtml \notin StaticNames /\ staticDir # <<>>
    /\ \E k \in 1..N : SourceDocs[k].name = IndexMd
    /\ Len(markdown_file_post_list) = 2
    /\ build[IndexHtml] = Render(markdown_file_post_list)

SomeBadDate == \E k \in 1..N : DeclaresBadDate(SourceDocs[k].content)

\* C5 as stated: with an unparsable date in any document the run never
\* completes, never writes index.html and copies no static asset.
C5_Original ==
    SomeBadDate
    => /\ pc # "done"
       /\ IndexHtml \notin WrittenPaths
       /\ \A n \in 1..Len(written) : written[n].step # "static"

\* C5, amended: with an unparsable date in any document the run never renders
\* the index, copies no static asset and never completes: while it runs, its
\* next step is to process a document, until it stops aborted.
\* All it writes are the outputs of documents enumerated before the first
\* offending one, so index.html is written only for a document named index.
C5_Amended ==
    SomeBadDate
    => /\ pc \notin {"static", "done"}
       /\ pc = "docs" => ENABLED ProcessDocument
       /\ \A n \in 1..Len(written) :
             /\ written[n].step = "doc"
             /\ n <= N
             /\ written[n].path = HtmlNameOf(SourceDocs[n].name)
             /\ \A m \in 1..n : ~DeclaresBadDate(SourceDocs[m].content)

\* C5: the run aborted on the date of the second document after writing
\* index.html for the first, index.md.
C5_Witness ==
    /\ pc = "aborted" /\ failure = "date"
    /\ N = 2 /\ SourceDocs[1].name = IndexMd /\ DeclaresBadDate(SourceDocs[2].content)
    /\ WrittenPaths = {IndexHtml}

\* The first document whose processing fails on a read error or on its date.
FailsAt(k) == SourceDocs[k].kind = "dir" \/ DeclaresBadDate(SourceDocs[k].content)
FirstFailing == CHOOSE k \in 1..N : FailsAt(k) /\ \A m \in 1..(k - 1) : ~FailsAt(m)

\* C6: when the k-th document fails on a read error or an unparsable date,
\* the outputs of the k-1 documents before it are on disk with their
\* converted bodies, and the run has written nothing else.
C6_NoCleanup ==
    (pc = "aborted" /\ failure \in {"read", "date"})
    => /\ \E k \in 1..N : FailsAt(k)
       /\ Len(written) = FirstFailing - 1
       /\ \A m \in 1..(FirstFailing - 1) :
             /\ written[m].path = HtmlNameOf(SourceDocs[m].name)
             /\ HtmlNameOf(SourceDocs[m].name) \in DOMAIN build
             /\ build[HtmlNameOf(SourceDocs[m].name)] = BodyOf(SourceDocs[m].content)
       /\ \A m \in FirstFailing..N : HtmlNameOf(SourceDocs[m].name) \notin WrittenPaths

\* C6: the second document failed on its date; the first one's output stays.
C6_Witness ==
    /\ pc = "aborted" /\ failure = "date" /\ N = 2
    /\ FirstFailing = 2
    /\ build[HtmlNameOf(SourceDocs[1].name)] = BodyOf(SourceDocs[1].content)

\* C7 as stated: the list bound to the template has one entry per source
\* file, in enumeration order, each the (title, date, body) derived from its
\* file.
C7_Original ==
    pc \in {"static", "done"}
    => /\ Len(markdown_file_post_list) = N
       /\ \A k \in 1..N : markdown_file_post_list[k] = DerivedPost(SourceDocs[k].content)

\* C8 as stated: a second run over the same inputs leaves build/ as the first
\* run left it.
C8_Original ==
    (run = "second" /\ pc \in {"done", "aborted"}) => build = firstBuild

\* C9 as stated: after a completed run every file of src/static is in build/
\* under its name with its content.
C9_Original ==
    pc = "done"
    => \A n \in 1..Len(staticDir) :
          staticDir[n].kind = "file"
          => /\ staticDir[n].name \in DOMAIN build
             /\ build[staticDir[n].name] = staticDir[n].content

\* C10 as stated: with no source document and a template the run does not
\* abort.
C10_Original == (N = 0 /\ templatePresent) => pc # "aborted"

\* What the amended C10 asks of the inputs: no source document, a template, a
\* build directory that can be written, and no directory among the entries of
\* src/static that the copier enumerates.
C10_Pre ==
    /\ N = 0
    /\ templatePresent
    /\ buildOk
    /\ \A n \in 1..Len(staticDir) :
          staticDir[n].name[1] # "." => staticDir[n].kind = "file"

C10_Safe ==
    C10_Pre
    => /\ pc # "aborted"
       /\ pc # "start" => warned
       /\ \A n \in 1..Len(written) : written[n].step # "doc"
       /\ pc \in {"static", "done"}
          => written[1] = Written(IndexHtml, <<"<ul>", "</ul>">>, "index")

\* C10, amended: with no source document, a template, a writable build
\* directory and only regular files for the copier, the run warns, writes no
\* document file, writes the rendering of the empty list to index.html and
\* completes.
C10_Amended == [](C10_Safe) /\ (C10_Pre ~> pc = "done")

\* C10: a completed run over directories that hold no document to convert.
C10_Witness ==
    /\ pc = "done" /\ C10_Pre /\ warned
    /\ mdDir # <<>> /\ staticDir # <<>>
    /\ written[1].path = IndexHtml
====
